---- MODULE Spec2Model ----
(***************************************************************************)
(* Model of libobs/obs-audio-controls.c: the fader and the volume meter,   *)
(* the source they attach to, and the threads that call into them.         *)
(*                                                                         *)
(* Floats are fixed point: decibels in thousandths of a dB, multipliers in *)
(* units of 1e-8, deflections in thousandths.  -INFINITY, +INFINITY and    *)
(* NaN are the values NegInf, PosInf and NaN; every float comparison goes  *)
(* through FLt / FGt / FEq, which are false on NaN as in IEEE 754.         *)
(* log10f and powf are libm: they are tabulated on the grid of values the  *)
(* inputs below can produce, rounded to the model's precision.             *)
(***************************************************************************)
EXTENDS Integers, Sequences, FiniteSets, TLC

\* ------------------------------------------------------------ float values

NegInf == -2000000000
PosInf == 2000000000
NaN    == 2100000000

IsFinite(x) == x # NaN /\ x # NegInf /\ x # PosInf

FLt(a, b) == a # NaN /\ b # NaN /\ a < b
FGt(a, b) == a # NaN /\ b # NaN /\ a > b
FLe(a, b) == a # NaN /\ b # NaN /\ a <= b
FGe(a, b) == a # NaN /\ b # NaN /\ a >= b
FEq(a, b) == a # NaN /\ b # NaN /\ a = b

\* round(a / b) for b > 0
RoundDiv(a, b) == (2 * a + b) \div (2 * b)

\* 1.0 as a multiplier (units of 1e-8) and as a deflection (thousandths)
MulOne == 100000000
DefOne == 1000

\* log10f on the grid: multiplier (1e-8) -> log10 in thousandths
log10f(x) ==
    CASE x = NaN       -> NaN
      [] x = 1000      -> -5000
      [] x = 1585      -> -4800
      [] x = 10000000  -> -1000
      [] x = 11561100  -> -937
      [] x = 12500000  -> -903
      [] x = 12502600  -> -903
      [] x = 20000000  -> -699
      [] x = 100000000 -> 0
      [] x = 200000000 -> 301

\* powf(10.0f, e) on the grid: exponent in thousandths -> multiplier (1e-8)
powf10(e) ==
    CASE e = NaN   -> NaN
      [] e = -5000 -> 1000
      [] e = -4800 -> 1585
      [] e = -1000 -> 10000000
      [] e = -937  -> 11561100
      [] e = -903  -> 12502600
      [] e = -699  -> 19998600
      [] e = 0     -> 100000000
      [] e = 301   -> 200000000

\* powf(17.0f, -def) on the grid: deflection (thousandths) -> value in 1e-6
powf17neg(def) ==
    CASE def = 500 -> 242536

mul_to_db(mul) ==
    IF FEq(mul, 0) THEN NegInf
    ELSE IF log10f(mul) = NaN THEN NaN ELSE 20 * log10f(mul)

db_to_mul(db) ==
    IF db = NegInf THEN 0
    ELSE IF db = NaN THEN NaN ELSE powf10(RoundDiv(db, 20))

\* ------------------------------------------------------------ curves

cubic_def_to_db(def) ==
    IF FEq(def, DefOne) THEN 0
    ELSE IF FLe(def, 0) THEN NegInf
    ELSE mul_to_db(((def * def) \div 10) * def)

iec_def_to_db(def) ==
    IF FEq(def, DefOne) THEN 0
    ELSE IF FLe(def, 0) THEN NegInf
    ELSE IF FGe(def, 750) THEN (def - 1000) * 36
    ELSE IF FGe(def, 500) THEN (def - 750) * 44 - 9000
    ELSE IF FGe(def, 300) THEN (def - 500) * 50 - 20000
    ELSE IF FGe(def, 150) THEN RoundDiv((def - 300) * 200, 3) - 30000
    ELSE IF FGe(def, 75)  THEN RoundDiv((def - 150) * 400, 3) - 40000
    ELSE IF FGe(def, 25)  THEN (def - 75) * 200 - 50000
    ELSE IF FGe(def, 1)   THEN (def - 25) * 3600 - 60000
    ELSE NegInf

LOG_OFFSET_DB == 6
LOG_RANGE_DB  == 96
\* -log10f(LOG_OFFSET_DB) and -log10f(LOG_RANGE_DB + LOG_OFFSET_DB), in 1e-5
LOG_OFFSET_VAL == -77815
LOG_RANGE_VAL  == -200860

\* a logarithmic curve that ends at the lower bound instead of silence
log_def_to_db_floor(def) ==
    IF FGe(def, DefOne) THEN 0
    ELSE IF FLe(def, 0) THEN 0 - LOG_RANGE_DB * 1000
    ELSE 0 - RoundDiv((LOG_RANGE_DB + LOG_OFFSET_DB) * powf17neg(def), 1000)
           + LOG_OFFSET_DB * 1000

log_def_to_db(def) ==
    IF FGe(def, DefOne) THEN 0
    ELSE IF FLe(def, 0) THEN NegInf
    ELSE 0 - RoundDiv((LOG_RANGE_DB + LOG_OFFSET_DB) * powf17neg(def), 1000)
           + LOG_OFFSET_DB * 1000

\* cbrtf on the grid: multiplier (1e-8) -> deflection in thousandths
cbrtf(x) ==
    CASE x = NaN       -> NaN
      [] x = 1000      -> 22
      [] x = 1585      -> 25
      [] x = 10000000  -> 464
      [] x = 11561100  -> 487
      [] x = 12502600  -> 500
      [] x = 19998600  -> 585
      [] x = 100000000 -> 1000
      [] x = 200000000 -> 1260

\* log10f on the grid of -db + LOG_OFFSET_DB: thousandths -> log10 in 1e-5
log10f_db(x) ==
    CASE x = NaN   -> NaN
      [] x = 19980 -> 130060
      [] x = 24739 -> 139338
      [] x = 24740 -> 139340
      [] x = 26000 -> 141497

cubic_db_to_def(db) ==
    IF FEq(db, 0) THEN DefOne
    ELSE IF db = NegInf THEN 0
    ELSE cbrtf(db_to_mul(db))

iec_db_to_def(db) ==
    IF FEq(db, 0) THEN DefOne
    ELSE IF db = NegInf THEN 0
    ELSE IF db = PosInf THEN PosInf
    ELSE IF FGe(db, -9000)   THEN RoundDiv((db + 9000) * 250, 9000) + 750
    ELSE IF FGe(db, -20000)  THEN RoundDiv((db + 20000) * 250, 11000) + 500
    ELSE IF FGe(db, -30000)  THEN RoundDiv((db + 30000) * 200, 10000) + 300
    ELSE IF FGe(db, -40000)  THEN RoundDiv((db + 40000) * 150, 10000) + 150
    ELSE IF FGe(db, -50000)  THEN RoundDiv((db + 50000) * 75, 10000) + 75
    ELSE IF FGe(db, -60000)  THEN RoundDiv((db + 60000) * 50, 10000) + 25
    ELSE IF FGe(db, -114000) THEN RoundDiv((db + 150000) * 25, 90000)
    ELSE 0

log_db_to_def(db) ==
    IF FGe(db, 0) THEN DefOne
    ELSE IF FLe(db, 0 - LOG_RANGE_DB * 1000) THEN 0
    ELSE IF db = NaN THEN NaN
    ELSE RoundDiv((0 - log10f_db(LOG_OFFSET_DB * 1000 - db) - LOG_RANGE_VAL)
                     * 1000,
                  LOG_OFFSET_VAL - LOG_RANGE_VAL)

OBS_FADER_CUBIC == "OBS_FADER_CUBIC"
OBS_FADER_IEC   == "OBS_FADER_IEC"
OBS_FADER_LOG   == "OBS_FADER_LOG"
FaderTypes == {OBS_FADER_CUBIC, OBS_FADER_IEC, OBS_FADER_LOG}

\* obs_fader_create's switch: the conversion and the bounds of each type
def_to_db(ty, def) ==
    CASE ty = OBS_FADER_CUBIC -> cubic_def_to_db(def)
      [] ty = OBS_FADER_IEC   -> iec_def_to_db(def)
      [] ty = OBS_FADER_LOG   -> log_def_to_db(def)

db_to_def(ty, db) ==
    CASE ty = OBS_FADER_CUBIC -> cubic_db_to_def(db)
      [] ty = OBS_FADER_IEC   -> iec_db_to_def(db)
      [] ty = OBS_FADER_LOG   -> log_db_to_def(db)

max_db(ty) == 0

min_db(ty) ==
    CASE ty = OBS_FADER_CUBIC -> NegInf
      [] ty = OBS_FADER_IEC   -> NegInf
      [] ty = OBS_FADER_LOG   -> -96000

\* ------------------------------------------------------------ state

NULL     == "NULL"
Self     == "self"
NoThread == "none"
Threads  == {"t1", "t2"}
Sources  == {"A", "B"}
Signals  == {"volume", "volume_level", "destroy"}

VARIABLES
    kind,                \* which constructor ran: "fader" or "volmeter"
    type,                \* obs_fader_type of the instance
    source,              \* instance->source
    cur_db,              \* instance->cur_db
    ignore_next_signal,  \* fader->ignore_next_signal
    mutex,               \* owner of instance->mutex
    volume,              \* per source: its volume multiplier
    conns,               \* per source and signal: connections of the instance
    alive,               \* per source: not yet destroyed
    siglock,             \* per source and signal: owner of the signal's lock
    uaf,                 \* a call was made on a destroyed source
    ncalls,              \* calls made so far, where they are counted
    freed,               \* the instance was destroyed
    data,                \* the X11 capture: struct xshm_data
    x11,                 \* the X11 capture: what is allocated, and misuse
    pc,                  \* per thread: where it is
    loc                  \* per thread: arguments, locals and what it did

instVars == <<source, cur_db, ignore_next_signal, mutex>>
srcVars  == <<volume, conns, alive, siglock>>
vars     == <<kind, type, data, x11, source, cur_db, ignore_next_signal, mutex,
              volume, conns, alive, siglock, uaf, ncalls, freed, pc, loc>>

NoConns == [s \in Sources |-> [g \in Signals |-> 0]]

\* what a thread remembers of the state it was called in
Snapshot == [source |-> source, cur_db |-> cur_db,
             ignore_next_signal |-> ignore_next_signal, conns |-> conns]

Blank == [op |-> "none", inst |-> Self, in |-> 0, arg |-> NULL,
          db |-> 0, src |-> NULL, mul |-> 0, clamped |-> FALSE,
          ret |-> "none", sv_src |-> NULL, sv_mul |-> 0,
          cont |-> "none", dcont |-> "none", pending |-> 0,
          swallow |-> FALSE, hdb |-> 0,
          calls |-> 0, swallowed |-> 0, emits |-> 0, emit_db |-> 0,
          setvol |-> 0, disc |-> 0, val |-> 0,
          fail |-> "none", released |-> {}, did |-> FALSE,
          raw |-> <<0, 0, 0>>, lv_db |-> 0, out |-> <<0, 0, 0>>,
          emit_lv |-> <<0, 0, 0>>,
          pre |-> [source |-> NULL, cur_db |-> 0,
                                 ignore_next_signal |-> FALSE,
                                 conns |-> NoConns]]

\* the pointers of struct xshm_data that own a resource
XFields == {"dpy", "xshm", "texture", "cursor", "server"}

\* struct xshm_data after bzalloc
NoXshm == [dpy |-> NULL, xshm |-> NULL, texture |-> NULL, cursor |-> NULL,
           server |-> NULL, show_cursor |-> FALSE, advanced |-> FALSE]

\* no capture exists and nothing is allocated
NoX11 == [data |-> "none", live |-> [f \in XFields |-> FALSE],
          twice |-> FALSE, deref |-> FALSE]

\* obs_fader_create / obs_volmeter_create: bzalloc zeroes the instance and
\* the switch sets the conversions; both sources exist with volume 1.0
Init ==
    /\ kind \in {"fader", "volmeter"}
    /\ type \in FaderTypes
    /\ source = NULL
    /\ cur_db = 0
    /\ ignore_next_signal = FALSE
    /\ mutex = NoThread
    /\ volume = [s \in Sources |-> MulOne]
    /\ conns = NoConns
    /\ alive = [s \in Sources |-> TRUE]
    /\ siglock = [s \in Sources |-> [g \in Signals |-> NoThread]]
    /\ uaf = FALSE
    /\ ncalls = 0
    /\ freed = FALSE
    /\ data = NoXshm
    /\ x11 = NoX11
    /\ pc = [t \in Threads |-> "idle"]
    /\ loc = [t \in Threads |-> Blank]

Goto(t, label) == pc' = [pc EXCEPT ![t] = label]

Enter(t, rec, label) ==
    /\ pc[t] = "idle"
    /\ loc' = [loc EXCEPT ![t] = rec]
    /\ Goto(t, label)

\* signal_handler_connect / signal_handler_disconnect on a source's handler
Connected(c, s, g)  == [c EXCEPT ![s][g] = @ + 1]
Disconnected(c, s, g) == [c EXCEPT ![s][g] = IF @ > 0 THEN @ - 1 ELSE 0]

\* the lock of signal g of source s is free for thread t (it is re-entrant)
SigFree(t, s, g) == siglock[s][g] \in {NoThread, t}

\* ------------------------------------------------------------ fader: set

\* a clamp that replaces a value below the range by its lower end
set_db_clamp_to_min(db, lo, hi) ==
    LET a == IF FGt(db, hi) THEN hi ELSE db
    IN  [cur_db  |-> IF FLt(a, lo) THEN lo ELSE a,
         clamped |-> FGt(db, hi) \/ FLt(a, lo)]

\* obs_fader_set_db, the clamping of db into [min_db, max_db]
set_db_clamp(db, lo, hi) ==
    LET a == IF FGt(db, hi) THEN hi ELSE db
    IN  [cur_db  |-> IF FLt(a, lo) THEN NegInf ELSE a,
         clamped |-> FGt(db, hi) \/ FLt(a, lo)]

\* a set_db that leaves no flag
set_db_ignore_never == FALSE

\* obs_fader_set_db, the flag it leaves for the handler of the source's echo
set_db_ignore == TRUE

\* entry of obs_fader_set_db(fader, db), op names the public function called
EnterSetDb(t, op, fader, in, db) ==
    /\ kind = "fader"
    /\ ~freed
    /\ IF fader = NULL
       THEN Enter(t, [Blank EXCEPT !.op = op, !.inst = NULL, !.in = in,
                                   !.pre = Snapshot, !.ret = "false"], "done")
       ELSE Enter(t, [Blank EXCEPT !.op = op, !.in = in, !.pre = Snapshot,
                                   !.db = db], "set_db_lock")
    /\ UNCHANGED <<freed, kind, type, data, x11, instVars, srcVars, uaf>>

obs_fader_set_db(t, fader, db) == EnterSetDb(t, "set_db", fader, db, db)

\* a set_deflection that passes the deflection on as if it were dB
obs_fader_set_deflection_raw(t, fader, def) ==
    EnterSetDb(t, "set_deflection", fader, def, def)

obs_fader_set_deflection(t, fader, def) ==
    EnterSetDb(t, "set_deflection", fader, def, def_to_db(type, def))

obs_fader_set_mul(t, fader, mul) ==
    EnterSetDb(t, "set_mul", fader, mul, mul_to_db(mul))

\* pthread_mutex_lock ... the locals read under the lock
set_db_lock(t) ==
    /\ pc[t] = "set_db_lock"
    /\ mutex = NoThread
    /\ LET c == set_db_clamp(loc[t].db, min_db(type), max_db(type))
       IN  /\ cur_db' = c.cur_db
           /\ loc' = [loc EXCEPT ![t].clamped = c.clamped,
                                 ![t].src = source,
                                 ![t].mul = db_to_mul(c.cur_db)]
    /\ ignore_next_signal' = set_db_ignore
    /\ mutex' = t
    /\ Goto(t, "set_db_unlock")
    /\ UNCHANGED <<ncalls, freed, kind, type, data, x11, source, srcVars, uaf>>

set_db_unlock(t) ==
    /\ pc[t] = "set_db_unlock"
    /\ mutex' = NoThread
    /\ Goto(t, "set_db_set_volume")
    /\ UNCHANGED <<ncalls, freed, kind, type, data, x11, source, cur_db, ignore_next_signal,
                   srcVars, uaf, loc>>

\* if (src) obs_source_set_volume(src, mul)
set_db_set_volume(t) ==
    /\ pc[t] = "set_db_set_volume"
    /\ IF loc[t].src = NULL
       THEN /\ Goto(t, "set_db_ret")
            /\ UNCHANGED <<loc, uaf>>
       ELSE IF ~alive[loc[t].src]
       THEN /\ uaf' = TRUE
            /\ loc' = [loc EXCEPT ![t].setvol = @ + 1]
            /\ Goto(t, "set_db_ret")
       ELSE /\ loc' = [loc EXCEPT ![t].setvol = @ + 1,
                                  ![t].sv_src = loc[t].src,
                                  ![t].sv_mul = loc[t].mul,
                                  ![t].cont = "set_db_ret"]
            /\ Goto(t, "sv_signal")
            /\ UNCHANGED uaf
    /\ UNCHANGED <<ncalls, freed, kind, type, data, x11, instVars, srcVars>>

\* return !clamped
set_db_return(t) ==
    /\ pc[t] = "set_db_ret"
    /\ loc' = [loc EXCEPT ![t].ret = IF loc[t].clamped THEN "false" ELSE "true"]
    /\ Goto(t, "done")
    /\ UNCHANGED <<ncalls, freed, kind, type, data, x11, instVars, srcVars, uaf>>

\* ------------------------------------------------------------ fader: get

\* entry of obs_fader_get_db / get_deflection / get_mul: if (!fader) return 0
EnterGet(t, op, fader) ==
    /\ kind = "fader"
    /\ ~freed
    /\ IF fader = NULL
       THEN Enter(t, [Blank EXCEPT !.op = op, !.inst = NULL,
                                   !.pre = Snapshot], "done")
       ELSE Enter(t, [Blank EXCEPT !.op = op, !.pre = Snapshot], "get_lock")
    /\ UNCHANGED <<freed, kind, type, data, x11, instVars, srcVars, uaf>>

obs_fader_get_db(t, fader) == EnterGet(t, "get_db", fader)

obs_fader_get_deflection(t, fader) == EnterGet(t, "get_deflection", fader)

obs_fader_get_mul(t, fader) == EnterGet(t, "get_mul", fader)

\* pthread_mutex_lock; the value read from cur_db
get_lock(t) ==
    /\ pc[t] = "get_lock"
    /\ mutex = NoThread
    /\ mutex' = t
    /\ loc' = [loc EXCEPT ![t].val =
                  CASE loc[t].op = "get_db"         -> cur_db
                    [] loc[t].op = "get_deflection" -> db_to_def(type, cur_db)
                    [] loc[t].op = "get_mul"        -> db_to_mul(cur_db)]
    /\ Goto(t, "get_unlock")
    /\ UNCHANGED <<ncalls, freed, kind, type, data, x11, source, cur_db, ignore_next_signal,
                   srcVars, uaf>>

\* pthread_mutex_unlock; return
get_unlock(t) ==
    /\ pc[t] = "get_unlock"
    /\ mutex' = NoThread
    /\ Goto(t, "done")
    /\ UNCHANGED <<ncalls, freed, kind, type, data, x11, source, cur_db, ignore_next_signal,
                   srcVars, uaf, loc>>

\* ------------------------------------------------------------ the source

\* a destroy handler that returns to the source at once
source_destroyed_ignored == "ds_next"

\* fader_source_destroyed, volmeter_source_destroyed: the handlers of the
\* destroy signal call obs_fader_detach_source, obs_volmeter_detach_source
fader_source_destroyed    == "f_detach_lock"
volmeter_source_destroyed == "v_detach_lock"

\* first handler a signal of the source runs, by the kind of the instance
VolumeHandler  == IF kind = "fader" THEN "f_vc_lock" ELSE "v_vc_lock"
DestroyHandler ==
    IF kind = "fader" THEN fader_source_destroyed
    ELSE volmeter_source_destroyed

\* obs_source_set_volume(s, mul) called by the application
obs_source_set_volume(t, s, mul) ==
    /\ alive[s]
    /\ Enter(t, [Blank EXCEPT !.op = "source_set_volume", !.pre = Snapshot,
                              !.sv_src = s, !.sv_mul = mul, !.cont = "done"],
             "sv_signal")
    /\ UNCHANGED <<freed, kind, type, data, x11, instVars, srcVars, uaf>>

\* obs_source_set_volume: signal "volume" to every connected handler
source_signal_volume(t) ==
    /\ pc[t] = "sv_signal"
    /\ LET s == loc[t].sv_src
           n == conns[s]["volume"]
       IN  /\ siglock[s]["volume"] = NoThread
           /\ IF n = 0
              THEN /\ Goto(t, "sv_store")
                   /\ UNCHANGED <<loc, siglock>>
              ELSE /\ siglock' = [siglock EXCEPT ![s]["volume"] = t]
                   /\ loc' = [loc EXCEPT ![t].pending = n - 1]
                   /\ Goto(t, VolumeHandler)
    /\ UNCHANGED <<ncalls, freed, kind, type, data, x11, instVars, volume, conns, alive, uaf>>

\* a handler returned: run the next one, or leave the signal
source_signal_volume_next(t) ==
    /\ pc[t] = "sv_next"
    /\ IF loc[t].pending > 0
       THEN /\ loc' = [loc EXCEPT ![t].pending = @ - 1]
            /\ Goto(t, VolumeHandler)
            /\ UNCHANGED siglock
       ELSE /\ siglock' = [siglock EXCEPT ![loc[t].sv_src]["volume"] = NoThread]
            /\ Goto(t, "sv_store")
            /\ UNCHANGED loc
    /\ UNCHANGED <<ncalls, freed, kind, type, data, x11, instVars, volume, conns, alive, uaf>>

\* obs_source_set_volume: the source keeps the volume
source_store_volume(t) ==
    /\ pc[t] = "sv_store"
    /\ volume' = [volume EXCEPT ![loc[t].sv_src] = loc[t].sv_mul]
    /\ Goto(t, loc[t].cont)
    /\ UNCHANGED <<ncalls, freed, kind, type, data, x11, instVars, conns, alive, siglock, uaf, loc>>

\* ------------------------------------------------------------ fader: handlers

\* fader_source_volume_changed: if (fader->ignore_next_signal)
volume_changed_ignored(ign) == ign

\* fader_source_volume_changed, under the lock
fader_source_volume_changed(t) ==
    /\ pc[t] = "f_vc_lock"
    /\ mutex = NoThread
    /\ mutex' = t
    /\ IF volume_changed_ignored(ignore_next_signal)
       THEN /\ ignore_next_signal' = FALSE
            /\ loc' = [loc EXCEPT ![t].calls = @ + 1, ![t].swallow = TRUE,
                                  ![t].swallowed = @ + 1]
            /\ UNCHANGED cur_db
       ELSE /\ cur_db' = mul_to_db(loc[t].sv_mul)
            /\ loc' = [loc EXCEPT ![t].calls = @ + 1, ![t].swallow = FALSE,
                                  ![t].hdb = mul_to_db(loc[t].sv_mul)]
            /\ UNCHANGED ignore_next_signal
    /\ Goto(t, "f_vc_unlock")
    /\ UNCHANGED <<ncalls, freed, kind, type, data, x11, source, srcVars, uaf>>

fader_source_volume_changed_unlock(t) ==
    /\ pc[t] = "f_vc_unlock"
    /\ mutex' = NoThread
    /\ Goto(t, IF loc[t].swallow THEN "sv_next" ELSE "f_vc_emit")
    /\ UNCHANGED <<ncalls, freed, kind, type, data, x11, source, cur_db, ignore_next_signal,
                   srcVars, uaf, loc>>

\* signal_volume_changed(sh, fader, db)
signal_volume_changed(t) ==
    /\ pc[t] = "f_vc_emit"
    /\ loc' = [loc EXCEPT ![t].emits = @ + 1, ![t].emit_db = loc[t].hdb]
    /\ Goto(t, "sv_next")
    /\ UNCHANGED <<ncalls, freed, kind, type, data, x11, instVars, srcVars, uaf>>

\* ------------------------------------------------------------ fader: attach

\* a caller passes no source that was destroyed
Usable(src) == IF src = NULL THEN TRUE ELSE alive[src]

\* an attach that goes straight to its locked part
attach_without_detach == "f_attach_lock"

\* obs_fader_attach_source: what it does first, obs_fader_detach_source(fader)
fader_attach_first == "f_detach_lock"

\* entry of obs_fader_attach_source(fader, src): if (!fader || !source)
obs_fader_attach_source(t, fader, src) ==
    /\ kind = "fader"
    /\ ~freed
    /\ Usable(src)
    /\ IF fader = NULL \/ src = NULL
       THEN Enter(t, [Blank EXCEPT !.op = "attach", !.inst = fader,
                                   !.arg = src, !.pre = Snapshot,
                                   !.ret = "false"], "done")
       ELSE Enter(t, [Blank EXCEPT !.op = "attach", !.arg = src,
                                   !.pre = Snapshot,
                                   !.dcont = "f_attach_lock"],
                  fader_attach_first)
    /\ UNCHANGED <<freed, kind, type, data, x11, instVars, srcVars, uaf>>

fader_attach_lock(t) ==
    /\ pc[t] = "f_attach_lock"
    /\ mutex = NoThread
    /\ mutex' = t
    /\ Goto(t, "f_attach_conn_volume")
    /\ UNCHANGED <<ncalls, freed, kind, type, data, x11, source, cur_db, ignore_next_signal,
                   srcVars, uaf, loc>>

\* signal_handler_connect(sh, g, handler, instance) at pc from, then pc to
AttachConnect(t, from, g, to) ==
    /\ pc[t] = from
    /\ SigFree(t, loc[t].arg, g)
    /\ IF alive[loc[t].arg]
       THEN /\ conns' = Connected(conns, loc[t].arg, g)
            /\ UNCHANGED uaf
       ELSE /\ uaf' = TRUE
            /\ UNCHANGED conns
    /\ Goto(t, to)
    /\ UNCHANGED <<ncalls, freed, kind, type, data, x11, instVars, volume, alive, siglock, loc>>

fader_attach_connect_volume(t) ==
    AttachConnect(t, "f_attach_conn_volume", "volume", "f_attach_conn_destroy")

fader_attach_connect_destroy(t) ==
    AttachConnect(t, "f_attach_conn_destroy", "destroy", "f_attach_set")

\* an attach that keeps the source and leaves cur_db as it was
AttachSetSourceOnly(t, from, to) ==
    /\ pc[t] = from
    /\ source' = loc[t].arg
    /\ Goto(t, to)
    /\ UNCHANGED <<ncalls, freed, kind, type, data, x11, cur_db, ignore_next_signal, mutex,
                   srcVars, uaf, loc>>

\* source = source; cur_db = mul_to_db(obs_source_get_volume(source))
AttachSet(t, from, to) ==
    /\ pc[t] = from
    /\ source' = loc[t].arg
    /\ IF alive[loc[t].arg]
       THEN /\ cur_db' = mul_to_db(volume[loc[t].arg])
            /\ UNCHANGED uaf
       ELSE /\ uaf' = TRUE
            /\ UNCHANGED cur_db
    /\ Goto(t, to)
    /\ UNCHANGED <<ncalls, freed, kind, type, data, x11, ignore_next_signal, mutex, srcVars, loc>>

fader_attach_set(t) == AttachSet(t, "f_attach_set", "f_attach_unlock")

\* pthread_mutex_unlock; return true
AttachUnlock(t, from) ==
    /\ pc[t] = from
    /\ mutex' = NoThread
    /\ loc' = [loc EXCEPT ![t].ret = "true"]
    /\ Goto(t, "done")
    /\ UNCHANGED <<ncalls, freed, kind, type, data, x11, source, cur_db, ignore_next_signal,
                   srcVars, uaf>>

fader_attach_unlock(t) == AttachUnlock(t, "f_attach_unlock")

\* ------------------------------------------------------------ fader: detach

\* entry of obs_fader_detach_source(fader)
obs_fader_detach_source(t, fader) ==
    /\ kind = "fader"
    /\ ~freed
    /\ IF fader = NULL
       THEN Enter(t, [Blank EXCEPT !.op = "detach", !.inst = NULL,
                                   !.pre = Snapshot], "done")
       ELSE Enter(t, [Blank EXCEPT !.op = "detach", !.pre = Snapshot,
                                   !.dcont = "done"], "f_detach_lock")
    /\ UNCHANGED <<freed, kind, type, data, x11, instVars, srcVars, uaf>>

\* pthread_mutex_lock; if (!source) goto exit
DetachLock(t, from, disc, exit) ==
    /\ pc[t] = from
    /\ mutex = NoThread
    /\ mutex' = t
    /\ Goto(t, IF source = NULL THEN exit ELSE disc)
    /\ UNCHANGED <<ncalls, freed, kind, type, data, x11, source, cur_db, ignore_next_signal,
                   srcVars, uaf, loc>>

fader_detach_lock(t) ==
    DetachLock(t, "f_detach_lock", "f_detach_disc_volume", "f_detach_unlock")

\* a detach that disconnects and keeps the source pointer
DetachDisconnectKeepSource(t, from, g, to, last) ==
    /\ pc[t] = from
    /\ SigFree(t, source, g)
    /\ conns' = Disconnected(conns, source, g)
    /\ loc' = [loc EXCEPT ![t].disc = @ + 1]
    /\ Goto(t, to)
    /\ UNCHANGED <<ncalls, freed, kind, type, data, x11, instVars, volume, alive, siglock, uaf>>

\* signal_handler_disconnect(sh, g, handler, instance); the last one is
\* followed by source = NULL
DetachDisconnect(t, from, g, to, last) ==
    /\ pc[t] = from
    /\ SigFree(t, source, g)
    /\ IF alive[source]
       THEN /\ conns' = Disconnected(conns, source, g)
            /\ UNCHANGED uaf
       ELSE /\ uaf' = TRUE
            /\ UNCHANGED conns
    /\ source' = IF last THEN NULL ELSE source
    /\ loc' = [loc EXCEPT ![t].disc = @ + 1]
    /\ Goto(t, to)
    /\ UNCHANGED <<ncalls, freed, kind, type, data, x11, cur_db, ignore_next_signal, mutex,
                   volume, alive, siglock>>

\* a detach that leaves the volume handler connected
fader_detach_keep_volume(t) ==
    /\ pc[t] = "f_detach_disc_volume"
    /\ Goto(t, "f_detach_disc_destroy")
    /\ UNCHANGED <<ncalls, freed, kind, type, data, x11, instVars, srcVars, uaf, loc>>

fader_detach_disconnect_volume(t) ==
    DetachDisconnect(t, "f_detach_disc_volume", "volume",
                     "f_detach_disc_destroy", FALSE)

fader_detach_disconnect_destroy(t) ==
    DetachDisconnect(t, "f_detach_disc_destroy", "destroy",
                     "f_detach_unlock", TRUE)

\* exit: pthread_mutex_unlock, and back to the caller
DetachUnlock(t, from) ==
    /\ pc[t] = from
    /\ mutex' = NoThread
    /\ Goto(t, loc[t].dcont)
    /\ UNCHANGED <<ncalls, freed, kind, type, data, x11, source, cur_db, ignore_next_signal,
                   srcVars, uaf, loc>>

fader_detach_unlock(t) == DetachUnlock(t, "f_detach_unlock")

\* ------------------------------------------------------------ source destroy

\* the source is destroyed by its owner, who is not inside a call on it
obs_source_destroy(t, s) ==
    /\ alive[s]
    /\ \A u \in Threads :
          ~(loc[u].op = "source_set_volume" /\ loc[u].sv_src = s)
          /\ ~(loc[u].op = "attach" /\ loc[u].arg = s)
    /\ Enter(t, [Blank EXCEPT !.op = "source_destroy", !.arg = s,
                              !.pre = Snapshot, !.dcont = "ds_next"],
             "ds_signal")
    /\ UNCHANGED <<freed, kind, type, data, x11, instVars, srcVars, uaf>>

\* signal "destroy" to every connected handler: fader_source_destroyed and
\* volmeter_source_destroyed call detach_source
source_signal_destroy(t) ==
    /\ pc[t] = "ds_signal"
    /\ LET s == loc[t].arg
           n == conns[s]["destroy"]
       IN  /\ siglock[s]["destroy"] = NoThread
           /\ IF n = 0
              THEN /\ Goto(t, "ds_free")
                   /\ UNCHANGED <<loc, siglock>>
              ELSE /\ siglock' = [siglock EXCEPT ![s]["destroy"] = t]
                   /\ loc' = [loc EXCEPT ![t].pending = n - 1,
                                         ![t].calls = @ + 1]
                   /\ Goto(t, DestroyHandler)
    /\ UNCHANGED <<ncalls, freed, kind, type, data, x11, instVars, volume, conns, alive, uaf>>

source_signal_destroy_next(t) ==
    /\ pc[t] = "ds_next"
    /\ IF loc[t].pending > 0
       THEN /\ loc' = [loc EXCEPT ![t].pending = @ - 1, ![t].calls = @ + 1]
            /\ Goto(t, DestroyHandler)
            /\ UNCHANGED siglock
       ELSE /\ siglock' = [siglock EXCEPT ![loc[t].arg]["destroy"] = NoThread]
            /\ Goto(t, "ds_free")
            /\ UNCHANGED loc
    /\ UNCHANGED <<ncalls, freed, kind, type, data, x11, instVars, volume, conns, alive, uaf>>

\* the source and its signal handler are freed
source_free(t) ==
    /\ pc[t] = "ds_free"
    /\ alive' = [alive EXCEPT ![loc[t].arg] = FALSE]
    /\ conns' = [conns EXCEPT ![loc[t].arg] = [g \in Signals |-> 0]]
    /\ volume' = [volume EXCEPT ![loc[t].arg] = 0]
    /\ Goto(t, "done")
    /\ UNCHANGED <<ncalls, freed, kind, type, data, x11, instVars, siglock, uaf, loc>>

\* the call returned to its caller
Return(t) ==
    /\ pc[t] = "done"
    /\ loc' = [loc EXCEPT ![t] = Blank]
    /\ Goto(t, "idle")
    /\ UNCHANGED <<ncalls, freed, kind, type, data, x11, instVars, srcVars, uaf>>

\* ------------------------------------------------------------ volmeter

\* obs_volmeter_attach_source: what it does first,
\* obs_volmeter_detach_source(volmeter)
volmeter_attach_first == "v_detach_lock"

\* entry of obs_volmeter_attach_source(volmeter, src)
obs_volmeter_attach_source(t, volmeter, src) ==
    /\ kind = "volmeter"
    /\ ~freed
    /\ Usable(src)
    /\ IF volmeter = NULL \/ src = NULL
       THEN Enter(t, [Blank EXCEPT !.op = "attach", !.inst = volmeter,
                                   !.arg = src, !.pre = Snapshot,
                                   !.ret = "false"], "done")
       ELSE Enter(t, [Blank EXCEPT !.op = "attach", !.arg = src,
                                   !.pre = Snapshot,
                                   !.dcont = "v_attach_lock"],
                  volmeter_attach_first)
    /\ UNCHANGED <<freed, kind, type, data, x11, instVars, srcVars, uaf>>

volmeter_attach_lock(t) ==
    /\ pc[t] = "v_attach_lock"
    /\ mutex = NoThread
    /\ mutex' = t
    /\ Goto(t, "v_attach_conn_volume")
    /\ UNCHANGED <<ncalls, freed, kind, type, data, x11, source, cur_db, ignore_next_signal,
                   srcVars, uaf, loc>>

volmeter_attach_connect_volume(t) ==
    AttachConnect(t, "v_attach_conn_volume", "volume", "v_attach_conn_level")

volmeter_attach_connect_level(t) ==
    AttachConnect(t, "v_attach_conn_level", "volume_level",
                  "v_attach_conn_destroy")

volmeter_attach_connect_destroy(t) ==
    AttachConnect(t, "v_attach_conn_destroy", "destroy", "v_attach_set")

volmeter_attach_set(t) == AttachSet(t, "v_attach_set", "v_attach_unlock")

volmeter_attach_unlock(t) == AttachUnlock(t, "v_attach_unlock")

\* entry of obs_volmeter_detach_source(volmeter)
obs_volmeter_detach_source(t, volmeter) ==
    /\ kind = "volmeter"
    /\ ~freed
    /\ IF volmeter = NULL
       THEN Enter(t, [Blank EXCEPT !.op = "detach", !.inst = NULL,
                                   !.pre = Snapshot], "done")
       ELSE Enter(t, [Blank EXCEPT !.op = "detach", !.pre = Snapshot,
                                   !.dcont = "done"], "v_detach_lock")
    /\ UNCHANGED <<freed, kind, type, data, x11, instVars, srcVars, uaf>>

volmeter_detach_lock(t) ==
    DetachLock(t, "v_detach_lock", "v_detach_disc_volume", "v_detach_unlock")

volmeter_detach_disconnect_volume(t) ==
    DetachDisconnect(t, "v_detach_disc_volume", "volume",
                     "v_detach_disc_level", FALSE)

volmeter_detach_disconnect_level(t) ==
    DetachDisconnect(t, "v_detach_disc_level", "volume_level",
                     "v_detach_disc_destroy", FALSE)

volmeter_detach_disconnect_destroy(t) ==
    DetachDisconnect(t, "v_detach_disc_destroy", "destroy",
                     "v_detach_unlock", TRUE)

volmeter_detach_unlock(t) == DetachUnlock(t, "v_detach_unlock")

\* a volume handler that takes the lock and stores nothing
volmeter_source_volume_changed_keep(t) ==
    /\ pc[t] = "v_vc_lock"
    /\ mutex = NoThread
    /\ mutex' = t
    /\ loc' = [loc EXCEPT ![t].calls = @ + 1]
    /\ Goto(t, "v_vc_unlock")
    /\ UNCHANGED <<ncalls, freed, kind, type, data, x11, source, cur_db, ignore_next_signal,
                   srcVars, uaf>>

\* volmeter_source_volume_changed, under the lock
volmeter_source_volume_changed(t) ==
    /\ pc[t] = "v_vc_lock"
    /\ mutex = NoThread
    /\ mutex' = t
    /\ cur_db' = mul_to_db(loc[t].sv_mul)
    /\ loc' = [loc EXCEPT ![t].calls = @ + 1]
    /\ Goto(t, "v_vc_unlock")
    /\ UNCHANGED <<ncalls, freed, kind, type, data, x11, source, ignore_next_signal, srcVars, uaf>>

volmeter_source_volume_changed_unlock(t) ==
    /\ pc[t] = "v_vc_unlock"
    /\ mutex' = NoThread
    /\ Goto(t, "sv_next")
    /\ UNCHANGED <<ncalls, freed, kind, type, data, x11, source, cur_db, ignore_next_signal,
                   srcVars, uaf, loc>>

\* ------------------------------------------------------------ destroy

\* a destroy that frees the instance at once
destroy_without_detach == "inst_free"

\* obs_fader_destroy, obs_volmeter_destroy: what they do first,
\* obs_fader_detach_source(fader), obs_volmeter_detach_source(volmeter)
fader_destroy_first    == "f_detach_lock"
volmeter_destroy_first == "v_detach_lock"

\* the owner destroys the instance once, with no other call on it in progress
MayDestroy(t) ==
    /\ ~freed
    /\ \A u \in Threads \ {t} :
          pc[u] = "idle"
          \/ loc[u].op \in {"source_set_volume", "source_levels",
                            "source_destroy"}

\* entry of obs_fader_destroy(fader): if (!fader) return
obs_fader_destroy(t, fader) ==
    /\ kind = "fader"
    /\ MayDestroy(t)
    /\ IF fader = NULL
       THEN Enter(t, [Blank EXCEPT !.op = "destroy", !.inst = NULL,
                                   !.pre = Snapshot], "done")
       ELSE Enter(t, [Blank EXCEPT !.op = "destroy", !.pre = Snapshot,
                                   !.dcont = "inst_free"],
                  fader_destroy_first)
    /\ UNCHANGED <<freed, kind, type, data, x11, instVars, srcVars, uaf>>

\* entry of obs_volmeter_destroy(volmeter)
obs_volmeter_destroy(t, volmeter) ==
    /\ kind = "volmeter"
    /\ MayDestroy(t)
    /\ IF volmeter = NULL
       THEN Enter(t, [Blank EXCEPT !.op = "destroy", !.inst = NULL,
                                   !.pre = Snapshot], "done")
       ELSE Enter(t, [Blank EXCEPT !.op = "destroy", !.pre = Snapshot,
                                   !.dcont = "inst_free"],
                  volmeter_destroy_first)
    /\ UNCHANGED <<freed, kind, type, data, x11, instVars, srcVars, uaf>>

\* signal_handler_destroy; pthread_mutex_destroy; bfree
instance_free(t) ==
    /\ pc[t] = "inst_free"
    /\ freed' = TRUE
    /\ Goto(t, "done")
    /\ UNCHANGED <<ncalls, kind, type, data, x11, instVars, srcVars, uaf, loc>>

\* float product of two multipliers, each taken to four decimals
FMul(a, b) ==
    IF a = NaN \/ b = NaN THEN NaN
    ELSE RoundDiv(a, 10000) * RoundDiv(b, 10000)

\* a level converted without the volmeter's volume
volmeter_level_unscaled(ty, raw, mul) == db_to_def(ty, mul_to_db(raw))

\* volmeter_source_volume_levels: db_to_pos(mul_to_db(raw * mul))
volmeter_level(ty, raw, mul) == db_to_def(ty, mul_to_db(FMul(raw, mul)))

\* the source signals volume_level(level, magnitude, peak)
obs_source_signal_levels(t, s, raw) ==
    /\ alive[s]
    /\ Enter(t, [Blank EXCEPT !.op = "source_levels", !.pre = Snapshot,
                              !.sv_src = s, !.raw = raw], "lv_signal")
    /\ UNCHANGED <<freed, kind, type, data, x11, instVars, srcVars, uaf>>

\* signal "volume_level" to every connected handler
source_signal_levels(t) ==
    /\ pc[t] = "lv_signal"
    /\ LET s == loc[t].sv_src
           n == conns[s]["volume_level"]
       IN  /\ siglock[s]["volume_level"] = NoThread
           /\ IF n = 0
              THEN /\ Goto(t, "done")
                   /\ UNCHANGED <<loc, siglock>>
              ELSE /\ siglock' = [siglock EXCEPT ![s]["volume_level"] = t]
                   /\ loc' = [loc EXCEPT ![t].pending = n - 1]
                   /\ Goto(t, "v_lv_lock")
    /\ UNCHANGED <<ncalls, freed, kind, type, data, x11, instVars, volume, conns, alive, uaf>>

source_signal_levels_next(t) ==
    /\ pc[t] = "lv_next"
    /\ IF loc[t].pending > 0
       THEN /\ loc' = [loc EXCEPT ![t].pending = @ - 1]
            /\ Goto(t, "v_lv_lock")
            /\ UNCHANGED siglock
       ELSE /\ siglock' = [siglock EXCEPT
                              ![loc[t].sv_src]["volume_level"] = NoThread]
            /\ Goto(t, "done")
            /\ UNCHANGED loc
    /\ UNCHANGED <<ncalls, freed, kind, type, data, x11, instVars, volume, conns, alive, uaf>>

\* volmeter_source_volume_levels, under the lock
volmeter_source_volume_levels(t) ==
    /\ pc[t] = "v_lv_lock"
    /\ mutex = NoThread
    /\ mutex' = t
    /\ LET mul == db_to_mul(cur_db)
       IN  loc' = [loc EXCEPT
                    ![t].calls = @ + 1,
                    ![t].lv_db = cur_db,
                    ![t].out = [i \in 1..3 |->
                                  volmeter_level(type, loc[t].raw[i], mul)]]
    /\ Goto(t, "v_lv_unlock")
    /\ UNCHANGED <<ncalls, freed, kind, type, data, x11, source, cur_db, ignore_next_signal,
                   srcVars, uaf>>

volmeter_source_volume_levels_unlock(t) ==
    /\ pc[t] = "v_lv_unlock"
    /\ mutex' = NoThread
    /\ Goto(t, "v_lv_emit")
    /\ UNCHANGED <<ncalls, freed, kind, type, data, x11, source, cur_db, ignore_next_signal,
                   srcVars, uaf, loc>>

\* signal_levels_updated(sh, volmeter, level, magnitude, peak)
signal_levels_updated(t) ==
    /\ pc[t] = "v_lv_emit"
    /\ loc' = [loc EXCEPT ![t].emits = @ + 1, ![t].emit_lv = loc[t].out]
    /\ Goto(t, "lv_next")
    /\ UNCHANGED <<ncalls, freed, kind, type, data, x11, instVars, srcVars, uaf>>

\* ------------------------------------------------------------ specification

\* the arguments the callers pass
DbInputs  == {NaN, NegInf, -100000, -96000, 0, 6020, PosInf}
DefInputs == {0, 500, 1000}
MulInputs == {0, 100000000, 200000000}
Instances == {NULL, Self}
\* level, magnitude, peak
LevelInputs == {<<0, 0, 0>>, <<10000000, 100000000, 100000000>>}

\* a thread calls a public function, or the source's owner acts on a source
Call(t, dbs, defs, muls) ==
    \/ \E db \in dbs : obs_fader_set_db(t, Self, db)
    \/ obs_fader_set_db(t, NULL, 0)
    \/ \E def \in defs : obs_fader_set_deflection(t, Self, def)
    \/ \E mul \in muls : obs_fader_set_mul(t, Self, mul)
    \/ \E i \in Instances : obs_fader_get_db(t, i)
    \/ \E i \in Instances : obs_fader_get_deflection(t, i)
    \/ \E i \in Instances : obs_fader_get_mul(t, i)
    \/ \E i \in Instances : \E s \in Sources \cup {NULL} :
          obs_fader_attach_source(t, i, s)
    \/ \E i \in Instances : obs_fader_detach_source(t, i)
    \/ \E i \in Instances : \E s \in Sources \cup {NULL} :
          obs_volmeter_attach_source(t, i, s)
    \/ \E i \in Instances : obs_volmeter_detach_source(t, i)
    \/ \E i \in Instances : obs_fader_destroy(t, i)
    \/ \E i \in Instances : obs_volmeter_destroy(t, i)
    \/ \E s \in Sources : \E mul \in muls : obs_source_set_volume(t, s, mul)
    \/ \E s \in Sources : \E raw \in LevelInputs :
          obs_source_signal_levels(t, s, raw)
    \/ \E s \in Sources : obs_source_destroy(t, s)

\* a thread takes the next step of the call it is in
Step(t) ==
    \/ set_db_lock(t)
    \/ set_db_unlock(t)
    \/ set_db_set_volume(t)
    \/ set_db_return(t)
    \/ source_signal_levels(t)
    \/ source_signal_levels_next(t)
    \/ volmeter_source_volume_levels(t)
    \/ volmeter_source_volume_levels_unlock(t)
    \/ signal_levels_updated(t)
    \/ instance_free(t)
    \/ get_lock(t)
    \/ get_unlock(t)
    \/ source_signal_volume(t)
    \/ source_signal_volume_next(t)
    \/ source_store_volume(t)
    \/ fader_source_volume_changed(t)
    \/ fader_source_volume_changed_unlock(t)
    \/ signal_volume_changed(t)
    \/ fader_attach_lock(t)
    \/ fader_attach_connect_volume(t)
    \/ fader_attach_connect_destroy(t)
    \/ fader_attach_set(t)
    \/ fader_attach_unlock(t)
    \/ fader_detach_lock(t)
    \/ fader_detach_disconnect_volume(t)
    \/ fader_detach_disconnect_destroy(t)
    \/ fader_detach_unlock(t)
    \/ volmeter_attach_lock(t)
    \/ volmeter_attach_connect_volume(t)
    \/ volmeter_attach_connect_level(t)
    \/ volmeter_attach_connect_destroy(t)
    \/ volmeter_attach_set(t)
    \/ volmeter_attach_unlock(t)
    \/ volmeter_detach_lock(t)
    \/ volmeter_detach_disconnect_volume(t)
    \/ volmeter_detach_disconnect_level(t)
    \/ volmeter_detach_disconnect_destroy(t)
    \/ volmeter_detach_unlock(t)
    \/ volmeter_source_volume_changed(t)
    \/ volmeter_source_volume_changed_unlock(t)
    \/ source_signal_destroy(t)
    \/ source_signal_destroy_next(t)
    \/ source_free(t)
    \/ Return(t)

\* one thread: every call returns before the next one is made
Next ==
    \/ Call("t1", DbInputs, DefInputs, MulInputs) /\ UNCHANGED ncalls
    \/ Step("t1")

Spec == Init /\ [][Next]_vars

\* one thread, and arguments within the range of the fader: every dB but
\* NaN, and the multipliers from 0.0 to 1.0
DbInRange  == DbInputs \ {NaN}
MulInRange == {mul \in MulInputs : FLe(mul, MulOne)}

NextRange ==
    \/ Call("t1", DbInRange, DefInputs, MulInRange) /\ UNCHANGED ncalls
    \/ Step("t1")

SpecRange == Init /\ [][NextRange]_vars

\* two threads: calls on the instance and signals of the sources interleave.
\* The instance starts unattached or attached to source A, and the threads
\* make MaxCalls calls between them.
MaxCalls == 2

DbInputsC  == {NegInf, 0}
MulInputsC == {0, MulOne}
LevelInputsC == {<<10000000, 100000000, 100000000>>}

InitC ==
    /\ kind \in {"fader", "volmeter"}
    /\ type \in FaderTypes
    /\ source \in {NULL, "A"}
    /\ cur_db = 0
    /\ ignore_next_signal = FALSE
    /\ mutex = NoThread
    /\ volume = [s \in Sources |-> MulOne]
    /\ conns = [s \in Sources |-> [g \in Signals |->
                   IF s = source /\ g \in (IF kind = "fader"
                                           THEN {"volume", "destroy"}
                                           ELSE Signals)
                   THEN 1 ELSE 0]]
    /\ alive = [s \in Sources |-> TRUE]
    /\ siglock = [s \in Sources |-> [g \in Signals |-> NoThread]]
    /\ uaf = FALSE
    /\ ncalls = 0
    /\ freed = FALSE
    /\ data = NoXshm
    /\ x11 = NoX11
    /\ pc = [t \in Threads |-> "idle"]
    /\ loc = [t \in Threads |-> Blank]

CallC(t) ==
    /\ ncalls < MaxCalls
    /\ ncalls' = ncalls + 1
    /\ \/ \E db \in DbInputsC : obs_fader_set_db(t, Self, db)
       \/ \E s \in Sources : obs_fader_attach_source(t, Self, s)
       \/ obs_fader_detach_source(t, Self)
       \/ obs_fader_get_db(t, Self)
       \/ \E s \in Sources : obs_volmeter_attach_source(t, Self, s)
       \/ obs_volmeter_detach_source(t, Self)
       \/ obs_fader_destroy(t, Self)
       \/ obs_volmeter_destroy(t, Self)
       \/ \E s \in Sources : \E mul \in MulInputsC :
             obs_source_set_volume(t, s, mul)
       \/ \E s \in Sources : \E raw \in LevelInputsC :
             obs_source_signal_levels(t, s, raw)
       \/ \E s \in Sources : obs_source_destroy(t, s)

NextC == \E t \in Threads : CallC(t) \/ Step(t)

SpecC == InitC /\ [][NextC]_vars

\* the curve functions alone: a deflection of the grid is converted to dB
\* by the instance's def_to_db and back by its db_to_def.  The grid is every
\* thousandth of the IEC curve, which is piecewise linear.
CurveGrid == 0..DefOne

\* the dB values a conversion is started from: -Infinity, and -150 dB to
\* 0 dB in steps of CurveDbStep thousandths
CurveDbStep == 100
CurveDbGrid == {NegInf} \cup {-150000 + CurveDbStep * k : k \in 0..1500}

InitCurve ==
    /\ kind = "fader"
    /\ type = OBS_FADER_IEC
    /\ source = NULL
    /\ cur_db = 0
    /\ ignore_next_signal = FALSE
    /\ mutex = NoThread
    /\ volume = [s \in Sources |-> MulOne]
    /\ conns = NoConns
    /\ alive = [s \in Sources |-> TRUE]
    /\ siglock = [s \in Sources |-> [g \in Signals |-> NoThread]]
    /\ uaf = FALSE
    /\ ncalls = 0
    /\ freed = FALSE
    /\ data = NoXshm
    /\ x11 = NoX11
    /\ \/ /\ pc = [t \in Threads |->
                      IF t = "t1" THEN "curve_def_to_db" ELSE "idle"]
          /\ \E d \in CurveGrid :
                loc = [t \in Threads |->
                         IF t = "t1"
                         THEN [Blank EXCEPT !.op = "curve", !.in = d]
                         ELSE Blank]
       \/ /\ pc = [t \in Threads |->
                      IF t = "t1" THEN "curve_db_to_def" ELSE "idle"]
          /\ \E db \in CurveDbGrid :
                loc = [t \in Threads |->
                         IF t = "t1"
                         THEN [Blank EXCEPT !.op = "curve_db", !.db = db]
                         ELSE Blank]

\* fader->def_to_db(def)
curve_def_to_db(t) ==
    /\ pc[t] = "curve_def_to_db"
    /\ loc' = [loc EXCEPT ![t].db = def_to_db(type, loc[t].in)]
    /\ Goto(t, "curve_db_to_def")
    /\ UNCHANGED <<ncalls, freed, kind, type, data, x11, instVars, srcVars, uaf>>

\* fader->db_to_def(db)
curve_db_to_def(t) ==
    /\ pc[t] = "curve_db_to_def"
    /\ loc' = [loc EXCEPT ![t].val = db_to_def(type, loc[t].db)]
    /\ Goto(t, "done")
    /\ UNCHANGED <<ncalls, freed, kind, type, data, x11, instVars, srcVars, uaf>>

NextCurve == curve_def_to_db("t1") \/ curve_db_to_def("t1")

SpecCurve == InitCurve /\ [][NextCurve]_vars

\* ------------------------------------------------------------ X11 capture
\* plugins/linux-capture/xshm-input.c.  A pointer of struct xshm_data is NULL
\* or "obj"; x11.live tells which of the resources exist, x11.twice that one
\* was released that did not exist, x11.deref that a NULL pointer was used.

\* the step at which xshm_capture_start fails, or "none"
StartOutcomes == {"display", "query", "geometry", "attach", "none"}

\* where xshm_capture_start goes at fail: xshm_capture_stop(data)
start_fail_return == "done"
start_fail_next   == "x_stop"

\* xshm_create: bzalloc, then xshm_update(data, settings)
xshm_create(t) ==
    /\ x11.data \in {"none", "freed"}
    /\ Enter(t, [Blank EXCEPT !.op = "xshm_create", !.cont = "x_update_set"],
             "x_stop")
    /\ data' = NoXshm
    /\ x11' = [x11 EXCEPT !.data = "live"]
    /\ UNCHANGED <<ncalls, freed, kind, type, instVars, srcVars, uaf>>

\* xshm_update(vptr, settings): xshm_capture_stop(data) first
xshm_update(t) ==
    /\ x11.data = "live"
    /\ Enter(t, [Blank EXCEPT !.op = "xshm_update", !.cont = "x_update_set"],
             "x_stop")
    /\ UNCHANGED <<ncalls, freed, kind, type, data, x11, instVars, srcVars, uaf>>

\* xshm_capture_stop: every pointer that is set is released and set to NULL
xshm_capture_stop(t) ==
    /\ pc[t] = "x_stop"
    /\ LET set == {f \in XFields : data[f] # NULL}
       IN  /\ x11' = [x11 EXCEPT
                        !.live = [f \in XFields |-> @[f] /\ f \notin set],
                        !.twice = @ \/ \E f \in set : ~x11.live[f]]
           /\ data' = [f \in DOMAIN data |->
                         IF f \in XFields THEN NULL ELSE data[f]]
           /\ loc' = [loc EXCEPT ![t].released = @ \cup set]
    /\ Goto(t, loc[t].cont)
    /\ UNCHANGED <<ncalls, freed, kind, type, instVars, srcVars, uaf>>

\* xshm_update: the settings are read, server = bstrdup(...)
xshm_update_settings(t) ==
    /\ pc[t] = "x_update_set"
    /\ \E sc \in BOOLEAN : \E adv \in BOOLEAN :
          data' = [data EXCEPT !.show_cursor = sc, !.advanced = adv,
                               !.server = "obj"]
    /\ x11' = [x11 EXCEPT !.live["server"] = TRUE]
    /\ Goto(t, "x_start")
    /\ UNCHANGED <<ncalls, freed, kind, type, instVars, srcVars, uaf, loc>>

\* xshm_capture_start: XOpenDisplay, XShmQueryExtension,
\* xshm_update_geometry, xshm_attach, then cursor and texture; a failure
\* goes to fail.  gs_texture_create gives a texture or NULL.
xshm_capture_start(t) ==
    /\ pc[t] = "x_start"
    /\ \E fail \in StartOutcomes : \E tex \in {NULL, "obj"} :
          LET ok   == fail = "none"
              dpy  == IF fail = "display" THEN NULL ELSE "obj"
              shm  == IF ok THEN "obj"
                      ELSE IF fail = "attach" THEN NULL ELSE data.xshm
          IN  /\ ok \/ tex = NULL
              /\ data' = [data EXCEPT
                            !.dpy = dpy,
                            !.xshm = shm,
                            !.cursor = IF ok THEN "obj" ELSE @,
                            !.texture = IF ok THEN tex ELSE @]
              /\ x11' = [x11 EXCEPT
                           !.live["dpy"] = @ \/ dpy # NULL,
                           !.live["xshm"] = @ \/ ok,
                           !.live["cursor"] = @ \/ ok,
                           !.live["texture"] =
                               IF ok THEN tex # NULL ELSE @,
                           !.twice = @ \/ (/\ ok
                                           /\ data.texture # NULL
                                           /\ ~x11.live["texture"])]
              /\ loc' = [loc EXCEPT ![t].fail = fail, ![t].cont = "done"]
              /\ Goto(t, IF ok THEN "done" ELSE start_fail_next)
    /\ UNCHANGED <<ncalls, freed, kind, type, instVars, srcVars, uaf>>

\* xshm_video_tick: nothing without a texture; else the image is read
\* through dpy and xshm
xshm_video_tick(t) ==
    /\ x11.data = "live"
    /\ Enter(t, [Blank EXCEPT !.op = "xshm_video_tick",
                              !.did = data.texture # NULL], "done")
    /\ x11' = [x11 EXCEPT !.deref = @ \/ (/\ data.texture # NULL
                                          /\ \/ data.dpy = NULL
                                             \/ data.xshm = NULL)]
    /\ UNCHANGED <<ncalls, freed, kind, type, data, instVars, srcVars, uaf>>

\* xshm_video_render: nothing without a texture; else the texture is drawn
xshm_video_render(t) ==
    /\ x11.data = "live"
    /\ Enter(t, [Blank EXCEPT !.op = "xshm_video_render",
                              !.did = data.texture # NULL], "done")
    /\ UNCHANGED <<ncalls, freed, kind, type, data, x11, instVars, srcVars, uaf>>

\* xshm_destroy: xshm_capture_stop(data), then bfree(data)
xshm_destroy(t) ==
    /\ x11.data = "live"
    /\ Enter(t, [Blank EXCEPT !.op = "xshm_destroy", !.cont = "x_free"],
             "x_stop")
    /\ UNCHANGED <<ncalls, freed, kind, type, data, x11, instVars, srcVars, uaf>>

xshm_free(t) ==
    /\ pc[t] = "x_free"
    /\ x11' = [x11 EXCEPT !.data = "freed"]
    /\ Goto(t, "done")
    /\ UNCHANGED <<ncalls, freed, kind, type, data, instVars, srcVars, uaf, loc>>

\* the capture alone: obs calls the callbacks of xshm_input one at a time
InitXshm ==
    /\ kind = "fader"
    /\ type = OBS_FADER_CUBIC
    /\ source = NULL
    /\ cur_db = 0
    /\ ignore_next_signal = FALSE
    /\ mutex = NoThread
    /\ volume = [s \in Sources |-> MulOne]
    /\ conns = NoConns
    /\ alive = [s \in Sources |-> TRUE]
    /\ siglock = [s \in Sources |-> [g \in Signals |-> NoThread]]
    /\ uaf = FALSE
    /\ ncalls = 0
    /\ freed = FALSE
    /\ data = NoXshm
    /\ x11 = NoX11
    /\ pc = [t \in Threads |-> "idle"]
    /\ loc = [t \in Threads |-> Blank]

NextXshm ==
    \/ xshm_create("t1")
    \/ xshm_update("t1")
    \/ xshm_capture_stop("t1")
    \/ xshm_update_settings("t1")
    \/ xshm_capture_start("t1")
    \/ xshm_video_tick("t1")
    \/ xshm_video_render("t1")
    \/ xshm_destroy("t1")
    \/ xshm_free("t1")
    \/ Return("t1")

SpecXshm == InitXshm /\ [][NextXshm]_vars

\* ------------------------------------------------------------ properties

SetOps == {"set_db", "set_deflection", "set_mul"}

\* no call is in progress
AtRest == \A t \in Threads : pc[t] \in {"idle", "done"}

\* thread t has returned from op, called on the instance
Returned(t, op) == pc[t] = "done" /\ loc[t].op = op /\ loc[t].inst = Self

\* the signals the instance connects its handlers to
Handlers == IF kind = "fader" THEN {"volume", "destroy"} ELSE Signals

\* the connections of an instance attached to src and to nothing else
ConnsOf(src) ==
    [s \in Sources |-> [g \in Signals |->
        IF s = src /\ g \in Handlers THEN 1 ELSE 0]]

\* the value set_db is to store for the input in
Stored(in) ==
    IF FGt(in, max_db(type)) THEN max_db(type)
    ELSE IF FLt(in, min_db(type)) THEN NegInf
    ELSE in

\* C1: a set_db (set_deflection, set_mul) on an attached fader that pushed a
\* volume to the source emits no volume_changed: once the handler of the
\* source's echo has run, exactly one signal was swallowed, none was emitted
\* and ignore_next_signal is false again.
C1_EchoSwallowed ==
    \A t \in Threads :
        (/\ loc[t].op \in SetOps
         /\ loc[t].setvol > 0
         /\ pc[t] \in {"sv_next", "sv_store", "set_db_ret", "done"})
        => /\ loc[t].swallowed = 1
           /\ loc[t].calls = 1
           /\ loc[t].emits = 0
           /\ ignore_next_signal = FALSE

C1_Witness ==
    \E t \in Threads :
        /\ Returned(t, "set_deflection")
        /\ loc[t].src # NULL
        /\ loc[t].pre.ignore_next_signal
        /\ loc[t].swallowed = 1
        /\ loc[t].emits = 0
        /\ ~ignore_next_signal

\* C2: after obs_fader_set_db(db) has returned, for every type and every db
\* (finite, the bounds themselves, +Infinity, -Infinity, NaN), cur_db is
\* -Infinity when db was below min_db, max_db when db was above max_db, and
\* otherwise lies in [min_db, max_db].
C2_SetDbInRange ==
    \A t \in Threads :
        Returned(t, "set_db")
        => IF FLt(loc[t].in, min_db(type)) THEN cur_db = NegInf
           ELSE IF FGt(loc[t].in, max_db(type)) THEN cur_db = max_db(type)
           ELSE FLe(min_db(type), cur_db) /\ FLe(cur_db, max_db(type))

\* C3: whenever a call on the fader or a signal of the source has returned,
\* min_db <= cur_db <= max_db (-Infinity, the silence a value below min_db
\* is replaced by, and the NaN of C2 set aside).
C3_CurDbInRange ==
    (kind = "fader" /\ AtRest /\ cur_db # NaN /\ cur_db # NegInf)
    => FLe(min_db(type), cur_db) /\ FLe(cur_db, max_db(type))

\* C4: after any single-threaded sequence of attach and detach calls the
\* instance's handlers are connected to the signals of the source in its
\* source field and to no other, once each; a signal of the attached source
\* runs the handler once, a signal of another source never.
C4_OneSubscription ==
    /\ AtRest => conns = ConnsOf(source)
    /\ \A t \in Threads :
          (pc[t] = "done" /\ loc[t].op = "source_set_volume")
          => loc[t].calls = IF loc[t].sv_src = loc[t].pre.source THEN 1 ELSE 0

C4_Witness ==
    \E t \in Threads :
        /\ Returned(t, "attach")
        /\ loc[t].ret = "true"
        /\ loc[t].pre.source \notin {NULL, loc[t].arg}
        /\ source = loc[t].arg
        /\ conns = ConnsOf(loc[t].arg)

\* C5: when two threads have called attach_source on the instance with
\* different sources and both calls have returned, the instance's handlers
\* are connected to the source in its source field and to no other.
C5_ConcurrentAttachOneSource ==
    (/\ \A t \in Threads : Returned(t, "attach") /\ loc[t].ret = "true"
     /\ loc["t1"].arg # loc["t2"].arg)
    => conns = ConnsOf(source)

\* the places where a thread calls out: to the source (connect, disconnect,
\* get volume, set volume) or to the instance's own signal handler
CallOuts ==
    {"set_db_set_volume", "f_vc_emit",
     "f_attach_conn_volume", "f_attach_conn_destroy", "f_attach_set",
     "f_detach_disc_volume", "f_detach_disc_destroy",
     "v_attach_conn_volume", "v_attach_conn_level", "v_attach_conn_destroy",
     "v_attach_set", "v_detach_disc_volume", "v_detach_disc_level",
     "v_detach_disc_destroy"}

\* C6: a thread that is calling out to the source or to the instance's
\* subscribers does not own the instance mutex.
C6_NoLockInCallOut ==
    \A t \in Threads : pc[t] \in CallOuts => mutex # t

\* C7: when the attached source signals destroy, then once the handler has
\* returned the source field is NULL and no handler is connected to that
\* source; no later call is made on the destroyed source.
C7_DestroyDetaches ==
    /\ \A t \in Threads :
          (/\ loc[t].op = "source_destroy"
           /\ loc[t].pre.source = loc[t].arg
           /\ pc[t] \in {"ds_free", "done"})
          => /\ source = NULL
             /\ loc[t].calls = 1
             /\ \A g \in Signals : conns[loc[t].arg][g] = 0
    /\ \A t \in Threads :
          (pc[t] = "set_db_set_volume" /\ loc[t].src # NULL)
          => alive[loc[t].src]
    /\ ~uaf

C7_Witness ==
    \E t \in Threads :
        /\ pc[t] = "ds_free"
        /\ loc[t].pre.source = loc[t].arg
        /\ loc[t].pre.conns[loc[t].arg]["destroy"] = 1
        /\ alive[loc[t].arg]
        /\ source = NULL
        /\ \A g \in Signals : conns[loc[t].arg][g] = 0

\* C8: every volume signal of the attached source that is not the echo of a
\* set_db of this fader sets cur_db to mul_to_db(volume) and emits
\* volume_changed(fader, db) once, whatever was called before.
C8_ExternalVolumeFollowed ==
    \A t \in Threads :
        (/\ kind = "fader"
         /\ pc[t] = "done"
         /\ loc[t].op = "source_set_volume"
         /\ loc[t].pre.source = loc[t].sv_src)
        => /\ cur_db = mul_to_db(loc[t].sv_mul)
           /\ loc[t].emits = 1
           /\ loc[t].emit_db = mul_to_db(loc[t].sv_mul)

\* C9 as claimed: obs_fader_set_db returns false exactly when the value it
\* stored differs from its input, and true exactly when it equals the input.
C9_FalseIffChanged ==
    \A t \in Threads :
        Returned(t, "set_db")
        => (loc[t].ret = "false" <=> cur_db # loc[t].in)

\* C9 as amended: obs_fader_set_db returns false exactly when db > max_db or
\* db < min_db in float comparison, and it then stored max_db or -Infinity;
\* otherwise it stored db and returns true.  -Infinity on a Logarithmic
\* fader is below min_db: it is stored unchanged and false is returned.
C9_FalseIffOutOfRange ==
    \A t \in Threads :
        Returned(t, "set_db")
        => /\ loc[t].ret = "false"
                <=> (FGt(loc[t].in, max_db(type))
                     \/ FLt(loc[t].in, min_db(type)))
           /\ cur_db = Stored(loc[t].in)
           /\ (type # OBS_FADER_LOG /\ loc[t].in = NegInf)
                => loc[t].ret = "true"

C9_Witness ==
    \E t \in Threads :
        /\ Returned(t, "set_db")
        /\ type = OBS_FADER_LOG
        /\ loc[t].in = NegInf
        /\ cur_db = NegInf
        /\ loc[t].ret = "false"

\* C10: attach_source returns false exactly when the instance or the source
\* is absent, and then nothing has changed; when it returns true, source is
\* set, cur_db is mul_to_db of the source's volume and every handler of the
\* instance is connected.  Between calls the handlers are connected all or
\* none, and none while source is NULL.
C10_AttachAllOrNothing ==
    /\ \A t \in Threads :
          (pc[t] = "done" /\ loc[t].op = "attach")
          => /\ loc[t].ret = "false"
                  <=> (loc[t].inst = NULL \/ loc[t].arg = NULL)
             /\ loc[t].ret = "false" => Snapshot = loc[t].pre
             /\ loc[t].ret = "true"
                  => /\ source = loc[t].arg
                     /\ cur_db = mul_to_db(volume[loc[t].arg])
                     /\ \A g \in Handlers : conns[loc[t].arg][g] = 1
    /\ AtRest
          => \A s \in Sources :
                \/ \A g \in Handlers : conns[s][g] = 0
                \/ source = s /\ \A g \in Handlers : conns[s][g] = 1

C10_Witness ==
    \E t \in Threads :
        /\ pc[t] = "done"
        /\ loc[t].op = "attach"
        /\ loc[t].ret = "false"
        /\ loc[t].pre.source # NULL
        /\ source = loc[t].pre.source
        /\ conns = ConnsOf(source)

\* C11: detach_source is idempotent.  Once it has returned the source is
\* NULL and cur_db and ignore_next_signal are as they were; on an instance
\* with no source (never attached, or detached by the call before) it makes
\* no disconnect call and changes nothing, so a second detach leaves the
\* state of the first.
C11_DetachIdempotent ==
    \A t \in Threads :
        Returned(t, "detach")
        => /\ source = NULL
           /\ cur_db = loc[t].pre.cur_db
           /\ ignore_next_signal = loc[t].pre.ignore_next_signal
           /\ conns = ConnsOf(NULL)
           /\ loc[t].pre.source = NULL
                => loc[t].disc = 0 /\ Snapshot = loc[t].pre

C11_Witness ==
    \E t \in Threads :
        /\ Returned(t, "detach")
        /\ loc[t].pre.source = NULL
        /\ loc[t].pre.ignore_next_signal
        /\ loc[t].pre.cur_db # 0
        /\ loc[t].disc = 0
        /\ Snapshot = loc[t].pre

\* C12: a Logarithmic fader attached to a source of volume 1.0 has cur_db 0,
\* and obs_fader_get_db returns cur_db; set_deflection(0.0) on the attached
\* fader calls set-volume once with multiplier 0.0, and from the handling of
\* the echo on cur_db is -Infinity and the source's volume ends as 0.0.
C12_LogEndToEnd ==
    \A t \in Threads :
        /\ (Returned(t, "attach") /\ loc[t].ret = "true"
             /\ type = OBS_FADER_LOG /\ volume[loc[t].arg] = MulOne)
           => cur_db = 0
        /\ Returned(t, "get_db") => loc[t].val = cur_db
        /\ (/\ kind = "fader" /\ type = OBS_FADER_LOG
             /\ loc[t].op = "set_deflection" /\ loc[t].in = 0
             /\ loc[t].pre.source # NULL
             /\ pc[t] \in {"sv_next", "sv_store", "set_db_ret", "done"})
           => /\ loc[t].setvol = 1
              /\ loc[t].sv_src = loc[t].pre.source
              /\ loc[t].sv_mul = 0
              /\ cur_db = NegInf
              /\ pc[t] \in {"set_db_ret", "done"} => volume[loc[t].sv_src] = 0

C12_Witness ==
    \E t \in Threads :
        /\ Returned(t, "set_deflection")
        /\ type = OBS_FADER_LOG
        /\ loc[t].in = 0
        /\ loc[t].pre.source # NULL
        /\ loc[t].pre.cur_db = 0
        /\ loc[t].setvol = 1
        /\ volume[loc[t].pre.source] = 0
        /\ cur_db = NegInf

\* the value levels_updated is to carry for a raw value and a cur_db
Scaled(raw, db) == db_to_def(type, mul_to_db(FMul(raw, db_to_mul(db))))

\* C13: every run of the volume_level handler emits levels_updated once;
\* level, magnitude and peak are db_to_pos(mul_to_db(raw * db_to_mul(db)))
\* for one value db, the cur_db the handler read while it owned the mutex,
\* whatever a volume signal on another thread does to cur_db meanwhile.
C13_LevelsScaled ==
    \A t \in Threads :
        loc[t].op = "source_levels"
        => /\ pc[t] = "v_lv_unlock"
                => mutex = t /\ loc[t].lv_db = cur_db
           /\ (loc[t].calls > 0
               /\ pc[t] \in {"v_lv_unlock", "v_lv_emit", "lv_next", "done"})
                => \A i \in 1..3 :
                      loc[t].out[i] = Scaled(loc[t].raw[i], loc[t].lv_db)
           /\ pc[t] \in {"lv_next", "done"}
                => /\ loc[t].emits = loc[t].calls
                   /\ loc[t].calls > 0 => loc[t].emit_lv = loc[t].out

C13_Witness ==
    \E t \in Threads :
        /\ pc[t] = "done"
        /\ loc[t].op = "source_levels"
        /\ loc[t].emits = 1
        /\ loc[t].lv_db = 0
        /\ cur_db = NegInf
        /\ loc[t].emit_lv = <<464, 1000, 1000>>

\* C14: a volume signal delivered to a volmeter sets cur_db to
\* mul_to_db(volume) and does nothing else: no levels_updated, no call to
\* the source, source and subscriptions as before; the next volume_level
\* handler works with that cur_db.
C14_VolmeterVolumeOnly ==
    \A t \in Threads :
        /\ (/\ kind = "volmeter"
             /\ pc[t] = "done"
             /\ loc[t].op = "source_set_volume"
             /\ loc[t].pre.source = loc[t].sv_src)
           => /\ loc[t].calls = 1
              /\ cur_db = mul_to_db(loc[t].sv_mul)
              /\ loc[t].emits = 0
              /\ loc[t].setvol = 0
              /\ source = loc[t].pre.source
              /\ conns = loc[t].pre.conns
              /\ ~uaf
        /\ (/\ kind = "volmeter"
             /\ pc[t] = "done"
             /\ loc[t].op = "source_levels"
             /\ loc[t].calls > 0)
           => loc[t].lv_db = mul_to_db(volume[loc[t].sv_src])

C14_Witness ==
    \E t \in Threads :
        /\ kind = "volmeter"
        /\ pc[t] = "done"
        /\ loc[t].op = "source_set_volume"
        /\ loc[t].pre.source = loc[t].sv_src
        /\ loc[t].pre.cur_db = 0
        /\ loc[t].sv_mul = 2 * MulOne
        /\ cur_db = 6020
        /\ loc[t].emits = 0

\* the places where a thread is inside a handler of the instance
HandlerPcs ==
    {"f_vc_lock", "f_vc_unlock", "f_vc_emit", "v_vc_lock", "v_vc_unlock",
     "v_lv_lock", "v_lv_unlock", "v_lv_emit",
     "f_detach_lock", "f_detach_disc_volume", "f_detach_disc_destroy",
     "f_detach_unlock", "v_detach_lock", "v_detach_disc_volume",
     "v_detach_disc_level", "v_detach_disc_destroy", "v_detach_unlock"}

\* C15: once obs_fader_destroy / obs_volmeter_destroy has returned, no
\* subscription of the instance is left on any source and no signal of a
\* source runs a handler of the freed instance; destroying an instance with
\* no source makes no call to a source.
C15_DestroyUnsubscribes ==
    /\ \A t \in Threads :
          Returned(t, "destroy")
          => /\ freed
             /\ conns = NoConns
             /\ loc[t].setvol = 0
             /\ loc[t].pre.source = NULL => loc[t].disc = 0
    /\ freed
          => /\ conns = NoConns
             /\ ~uaf
             /\ \A t \in Threads :
                   pc[t] \notin HandlerPcs /\ (loc[t].op # "destroy"
                                               => loc[t].calls = 0)

C15_Witness ==
    \E t \in Threads :
        /\ Returned(t, "destroy")
        /\ loc[t].pre.source # NULL
        /\ kind = "volmeter"
        /\ loc[t].disc = 3
        /\ freed
        /\ conns = NoConns

\* C16: the ends of the three curves are exact: def_to_db(1.0) = 0.0 and
\* def_to_db(0.0) = -Infinity, db_to_def(0.0) = 1.0 and
\* db_to_def(-Infinity) = 0.0, mul_to_db(0.0) = -Infinity and
\* db_to_mul(-Infinity) = 0.0, as functions and as set_deflection, set_mul,
\* get_deflection and get_mul apply them.
C16_CurveEndpoints ==
    /\ \A ty \in FaderTypes :
          /\ def_to_db(ty, DefOne) = 0
          /\ def_to_db(ty, 0) = NegInf
          /\ db_to_def(ty, 0) = DefOne
          /\ db_to_def(ty, NegInf) = 0
    /\ mul_to_db(0) = NegInf
    /\ db_to_mul(NegInf) = 0
    /\ \A t \in Threads :
          /\ (loc[t].op = "set_deflection" /\ loc[t].inst = Self)
             => /\ loc[t].in = DefOne => loc[t].db = 0
                /\ loc[t].in = 0 => loc[t].db = NegInf
          /\ (loc[t].op = "set_mul" /\ loc[t].inst = Self /\ loc[t].in = 0)
             => loc[t].db = NegInf
          /\ Returned(t, "get_deflection")
             => /\ cur_db = 0 => loc[t].val = DefOne
                /\ cur_db = NegInf => loc[t].val = 0
          /\ (Returned(t, "get_mul") /\ cur_db = NegInf) => loc[t].val = 0

C16_Witness ==
    \E t \in Threads :
        /\ Returned(t, "get_deflection")
        /\ type = OBS_FADER_LOG
        /\ source # NULL
        /\ cur_db = NegInf
        /\ loc[t].val = 0

\* C17: on the IEC curve, for every deflection d of the grid over [0, 1],
\* iec_db_to_def(iec_def_to_db(d)) = d.
C17_IecRoundTrip ==
    \A t \in Threads :
        (pc[t] = "done" /\ loc[t].op = "curve" /\ type = OBS_FADER_IEC)
        => loc[t].val = loc[t].in

\* C18: with set_db calls and volume signals of the source on several
\* threads, the handler swallows exactly the echoes: the echo of a set_db
\* that pushed a volume is swallowed and emits no volume_changed, and a
\* volume signal that is no echo is never swallowed.
C18_LatchOnlyEchoes ==
    \A t \in Threads :
        /\ (loc[t].op \in SetOps /\ loc[t].calls > 0
             /\ pc[t] \in {"set_db_ret", "done"})
           => loc[t].swallowed = loc[t].calls /\ loc[t].emits = 0
        /\ (loc[t].op = "source_set_volume" /\ pc[t] = "done")
           => loc[t].swallowed = 0

\* C19: with set_db on one thread and the destroy signal of the attached
\* source on another, set_db does not call set-volume on a source whose
\* destroy signal the fader has already handled.
C19_NoSetVolumeAfterDestroy ==
    \A t \in Threads :
        (pc[t] = "set_db_set_volume" /\ loc[t].src # NULL)
        => /\ alive[loc[t].src]
           /\ ~\E u \in Threads :
                 /\ loc[u].op = "source_destroy"
                 /\ loc[u].arg = loc[t].src
                 /\ loc[u].calls > 0
                 /\ pc[u] \in {"ds_next", "ds_free", "done"}

\* C20: no deadlock: while a call or a signal delivery is in progress, some
\* thread can take a step.
C20_NoDeadlock ==
    (\E t \in Threads : pc[t] \notin {"idle", "done"})
    => \E t \in Threads : ENABLED Step(t)

\* the places where a thread is inside a volume or volume_level handler
SignalPcs ==
    {"f_vc_lock", "f_vc_unlock", "f_vc_emit", "v_vc_lock", "v_vc_unlock",
     "v_lv_lock", "v_lv_unlock", "v_lv_emit"}

\* C21: detach is synchronous and immediate.  A volume or volume_level
\* handler of the instance runs only while the instance is connected to that
\* signal of the source (a source that exists); and once detach_source has returned from detaching
\* a source, and while the instance has no source, no thread is inside a
\* volume or volume_level handler of the instance, whenever the signal it
\* delivers was raised: no cur_db is changed and nothing is emitted.
C21_DetachImmediate ==
    \A u \in Threads :
        /\ (/\ pc[u] \in {"f_vc_lock", "f_vc_unlock", "f_vc_emit",
                          "v_vc_lock", "v_vc_unlock"}
            /\ alive[loc[u].sv_src])
           => conns[loc[u].sv_src]["volume"] > 0
        /\ (/\ pc[u] \in {"v_lv_lock", "v_lv_unlock", "v_lv_emit"}
            /\ alive[loc[u].sv_src])
           => conns[loc[u].sv_src]["volume_level"] > 0
        /\ \A t \in Threads \ {u} :
              (/\ Returned(t, "detach")
               /\ loc[t].pre.source # NULL
               /\ source = NULL)
              => pc[u] \notin SignalPcs

C21_Witness ==
    \E t \in Threads : \E u \in Threads \ {t} :
        /\ Returned(t, "detach")
        /\ loc[t].pre.source = "A"
        /\ source = NULL
        /\ loc[u].op = "source_set_volume"
        /\ loc[u].sv_src = "A"
        /\ loc[u].pre.conns["A"]["volume"] = 1
        /\ pc[u] = "done"
        /\ loc[u].calls = 0
        /\ loc[u].emits = 0
        /\ cur_db = loc[t].pre.cur_db

\* the breakpoints of the IEC curve: deflection and dB, in thousandths
IecTable ==
    {<<25, -60000>>, <<75, -50000>>, <<150, -40000>>, <<300, -30000>>,
     <<500, -20000>>, <<750, -9000>>, <<1000, 0>>}

\* C22: the two IEC directions use one breakpoint table: at each breakpoint
\* iec_def_to_db gives the dB of the table and iec_db_to_def the deflection;
\* the lower cut-off is one point (the dB of deflection 0.001 is mapped back
\* to 0.001, and every dB below it to 0.0); both functions are monotonically
\* non-decreasing.
C22_IecSameTable ==
    \A t \in Threads :
        /\ (loc[t].op = "curve" /\ pc[t] \in {"curve_db_to_def", "done"})
           => /\ \A p \in IecTable : loc[t].in = p[1] => loc[t].db = p[2]
              /\ loc[t].in > 0
                   => FGe(loc[t].db, iec_def_to_db(loc[t].in - 1))
        /\ (loc[t].op = "curve" /\ pc[t] = "done" /\ loc[t].in = 1)
           => loc[t].val = 1
        /\ (loc[t].op = "curve_db" /\ pc[t] = "done")
           => /\ \A p \in IecTable : loc[t].db = p[2] => loc[t].val = p[1]
              /\ loc[t].db # NegInf
                   => loc[t].val >= iec_db_to_def(loc[t].db - CurveDbStep)
              /\ FLt(loc[t].db, iec_def_to_db(1)) => loc[t].val = 0

\* two dB values agree: they are the same value, or finite and no further
\* apart than 0.02 dB, the rounding of one conversion to a multiplier and back
DbAgree(a, b) ==
    \/ a = b
    \/ /\ IsFinite(a)
       /\ IsFinite(b)
       /\ a - b <= 20
       /\ b - a <= 20

\* C23: whenever a fader is attached to a source and no call or signal
\* delivery is in progress, cur_db agrees with mul_to_db of the source's
\* volume, after any sequence of calls and volume changes within the
\* fader's range.
C23_ConsistentAtRest ==
    (/\ AtRest
     /\ kind = "fader"
     /\ ~freed
     /\ source # NULL
     /\ alive[source])
    => DbAgree(cur_db, mul_to_db(volume[source]))

\* C24: for every curve type and every deflection d of [0, 1],
\* obs_fader_set_deflection(d) returns true; the end positions 0.0 and 1.0
\* are in range for Cubic, IEC and Logarithmic faders alike.
C24_DeflectionInRange ==
    \A t \in Threads :
        (/\ Returned(t, "set_deflection")
         /\ FGe(loc[t].in, 0)
         /\ FLe(loc[t].in, DefOne))
        => loc[t].ret = "true"

\* every resource pointer of the capture is NULL
XshmAllNull == \A f \in XFields : data[f] = NULL

\* C25: between the callbacks of the X11 capture a texture implies a display
\* and a shared memory segment; after a start that failed, at whichever
\* step, and after a stop, dpy, xshm, texture, cursor and server are all
\* NULL, so that xshm_video_tick and xshm_video_render do nothing; no
\* resource is released twice and no NULL pointer is used.
C25_XshmLifecycle ==
    \A t \in Threads :
        /\ (pc[t] \in {"idle", "done"} /\ data.texture # NULL)
           => data.dpy # NULL /\ data.xshm # NULL
        /\ (pc[t] = "done" /\ loc[t].op \in {"xshm_create", "xshm_update"}
            /\ loc[t].fail # "none")
           => XshmAllNull
        /\ pc[t] \in {"x_update_set", "x_free"} => XshmAllNull
        /\ (pc[t] = "done" /\ loc[t].op = "xshm_destroy") => XshmAllNull
        /\ (pc[t] = "done"
            /\ loc[t].op \in {"xshm_video_tick", "xshm_video_render"}
            /\ XshmAllNull)
           => ~loc[t].did
        /\ \A f \in XFields : data[f] # NULL => x11.live[f]
        /\ ~x11.twice
        /\ ~x11.deref

\* a start that opened the display and failed at xshm_attach has returned:
\* the display and the server string were released and all is NULL
C25_Witness ==
    \E t \in Threads :
        /\ pc[t] = "done"
        /\ loc[t].op = "xshm_update"
        /\ loc[t].fail = "attach"
        /\ loc[t].released = {"dpy", "server"}
        /\ XshmAllNull
        /\ \A f \in XFields : ~x11.live[f]

====
